---- MODULE Spec2Model ----
(***************************************************************************)
(* Elliptic-curve arithmetic and key encoding of data_classes.py:          *)
(* Curve, Point (construction, equality, addition, double-and-add),        *)
(* PrivateKey.get_public_key, PublicKey.encode and PublicKey.address.      *)
(*                                                                         *)
(* Python values are modelled as follows.                                  *)
(*   - int: a TLA+ integer; // is \div (floor) and % by a positive modulus *)
(*     is %, both with Python's results for negative operands.             *)
(*   - Curve: a record [p, a, b]; None in the place of a curve is          *)
(*     NoneCurve.                                                          *)
(*   - Point: a record [curve, x, y, isNone]; isNone says that x and y are *)
(*     both None (the ideal point), and x, y are then unused.              *)
(*   - a call that may raise: a record [err, val]; err = "" is a normal    *)
(*     return of val, any other err is the exception that propagated.      *)
(*   - bytes: a sequence of integers in 0..255.                            *)
(***************************************************************************)
EXTENDS Integers, Sequences, FiniteSets, TLC

VARIABLES
    curve,        \* the Curve the driver built (NoneCurve before that)
    P, Q,         \* the driver's Point operands
    R,            \* the Point returned by the last Point operation
    op,           \* name of the last operation called
    args,         \* integer arguments of the last operation
    err,          \* "" or the exception the last operation raised
    pk,           \* the PublicKey returned by get_public_key
    flags,        \* [compressed, hash160, net] of the last encode / address
    out,          \* bytes returned by the last encode
    byte_address, \* bytes handed to b58encode by the last address
    b58,          \* what the last address returned
    eu,           \* locals of extended_euclidean_algorithm
    pc,           \* position inside inv / extended_euclidean_algorithm
    inv_m,        \* <<m>> once inv has returned m, <<>> before
    built         \* number of Point operands the driver has built

vars == <<curve, P, Q, R, op, args, err, pk, flags, out, byte_address, b58, eu, pc,
          inv_m, built>>

----------------------------------------------------------------------------
(* Bounds of the inputs the driver draws. *)

MaxP == 11         \* field moduli are drawn from -1..MaxP
MaxAB == 2         \* curve coefficients a, b from -MaxAB..MaxAB
CoordSlack == 1    \* coordinates from -CoordSlack..MaxP+CoordSlack
MaxK == 5          \* scalars and secrets from -1..MaxK
MaxN == 16         \* inv arguments n from -MaxN..MaxN

Moduli == -1..MaxP
Coeffs == (0 - MaxAB)..MaxAB
Coords == (0 - CoordSlack)..(MaxP + CoordSlack)
Scalars == -1..MaxK

----------------------------------------------------------------------------
(* Python integer helpers. *)

RECURSIVE Pow(_, _)
Pow(x, n) == IF n = 0 THEN 1 ELSE x * Pow(x, n - 1)

\* utils.is_prime: primality oracle of the field modulus.
is_prime(n) == n > 1 /\ \A d \in 2..(n - 1) : n % d # 0

Ok(v) == [err |-> "", val |-> v]
Raise(e, v) == [err |-> e, val |-> v]

----------------------------------------------------------------------------
(* class Curve *)

NoneCurve == [p |-> 0, a |-> 0, b |-> 0]

\* Curve.__init__ had the primality assert come before the singularity assert.
CurveInit_PrimeFirst(p, a, b) ==
    IF ~(p > 3) THEN Raise("p must be > 3", NoneCurve)
    ELSE IF ~is_prime(p) THEN Raise("p is not prime", NoneCurve)
    ELSE IF (4 * Pow(a, 3) + 27 * Pow(b, 2)) % p = 0
         THEN Raise("Curve must not be singular", NoneCurve)
    ELSE Ok([p |-> p, a |-> a, b |-> b])

\* Curve.__init__: the three asserts in source order, then the stores.
CurveInit(p, a, b) ==
    IF ~(p > 3) THEN Raise("p must be > 3", NoneCurve)
    ELSE IF ~((4 * Pow(a, 3) + 27 * Pow(b, 2)) % p # 0)
         THEN Raise("Curve must not be singular", NoneCurve)
    ELSE IF ~is_prime(p) THEN Raise("p is not prime", NoneCurve)
    ELSE Ok([p |-> p, a |-> a, b |-> b])

----------------------------------------------------------------------------
(* class Point *)

\* Point.from_ideal_point: cls(None, None, None); __init__ skips the assert.
from_ideal_point == [curve |-> NoneCurve, x |-> 0, y |-> 0, isNone |-> TRUE]

is_ideal_point(pt) == pt.isNone

\* Point.__init__ without its assert.
PointInit_NoCheck(c, x, y) ==
    Ok([curve |-> c, x |-> x, y |-> y, isNone |-> FALSE])

\* Point.__init__ with integer x and y.
PointInit(c, x, y) ==
    IF ~(Pow(y, 2) % c.p = (Pow(x, 3) + c.a * x + c.b) % c.p)
    THEN Raise("Point is not on the curve", from_ideal_point)
    ELSE Ok([curve |-> c, x |-> x, y |-> y, isNone |-> FALSE])

\* Python's == on two coordinates, each an int or None.
CoordEq(n1, v1, n2, v2) == IF n1 \/ n2 THEN n1 /\ n2 ELSE v1 = v2

\* Point.__eq__. A Curve defines no __eq__, so curves compare by identity;
\* a run builds one Curve object, so identity is equality of the record.
PointEq(s, o) ==
    /\ s.curve = o.curve
    /\ CoordEq(s.isNone, s.x, o.isNone, o.x)
    /\ CoordEq(s.isNone, s.y, o.isNone, o.y)

\* One iteration of the while loop of extended_euclidean_algorithm.
EuclidStep(e) ==
    LET quotient == e.old_r \div e.r IN
    [old_r |-> e.r, r |-> e.old_r - quotient * e.r,
     old_s |-> e.s, s |-> e.old_s - quotient * e.s,
     old_t |-> e.t, t |-> e.old_t - quotient * e.t]

\* The locals of extended_euclidean_algorithm(a, b) before the loop.
EuclidStart(a, b) ==
    [old_r |-> a, r |-> b, old_s |-> 1, s |-> 0, old_t |-> 0, t |-> 1]

RECURSIVE EuclidLoop(_)
EuclidLoop(e) == IF e.r # 0 THEN EuclidLoop(EuclidStep(e)) ELSE e

\* The return statement of extended_euclidean_algorithm: (gcd, x, y).
EuclidReturn(e) == <<e.old_r, e.old_s, e.old_t>>

extended_euclidean_algorithm(a, b) == EuclidReturn(EuclidLoop(EuclidStart(a, b)))

\* inv returning the Bezout coefficient without reducing it modulo p.
InvReturn_NoMod(g, p) == g[2]

\* The return statement of inv(n, p), g the triple of the algorithm.
InvReturn(g, p) == g[2] % p

\* inv(n, p) nested in Point.__add__.
inv(n, p) == InvReturn(extended_euclidean_algorithm(n, p), p)

\* The number Point.__add__ passes to inv once the P + (-P) case is past.
InvArg(self, other) ==
    IF self.x = other.x THEN 2 * self.y ELSE self.x - other.x

\* Point.__add__ on two finite points: slope, new coordinates, constructor.
AddFinite(self, other) ==
    IF self.x = other.x /\ self.y # other.y THEN Ok(from_ideal_point)
    ELSE LET m == IF self.x = other.x
                  THEN (3 * Pow(self.x, 2) + self.curve.a)
                           * inv(InvArg(self, other), self.curve.p)
                  ELSE (self.y - other.y) * inv(InvArg(self, other), self.curve.p)
             rx == (Pow(m, 2) - self.x - other.x) % self.curve.p
             ry == (0 - (m * (rx - self.x) + self.y)) % self.curve.p
         IN PointInit(self.curve, rx, ry)

\* Point.__add__.
PointAdd(self, other) ==
    IF is_ideal_point(self) THEN Ok(other)
    ELSE IF is_ideal_point(other) THEN Ok(self)
    ELSE AddFinite(self, other)

\* The while loop of Point.__rmul__ from the locals (k, result, append).
RECURSIVE RMulLoop(_, _, _)
RMulLoop(k, result, append) ==
    IF k = 0 THEN Ok(result)
    ELSE LET r1 == IF k % 2 = 1 THEN PointAdd(result, append) ELSE Ok(result)
         IN IF r1.err # "" THEN r1
            ELSE LET a1 == PointAdd(append, append)
                 IN IF a1.err # "" THEN a1
                    ELSE RMulLoop(k \div 2, r1.val, a1.val)

\* Point.__rmul__ (and __mul__, which calls it).
PointRMul(self, k) ==
    IF ~(k >= 0) THEN Raise("AssertionError", from_ideal_point)
    ELSE RMulLoop(k, from_ideal_point, self)

----------------------------------------------------------------------------
(* utils: the hash primitives and the Base58 encoder. Their code is not    *)
(* part of data_classes.py; they are modelled by their contracts: sha256   *)
(* maps bytes to 32 bytes, ripemd160 maps bytes to 20 bytes, both          *)
(* deterministic, and b58encode is the standard Base58 encoding.           *)

\* a checksum of the bytes b[lo..hi], the seed of the digests below
RECURSIVE Fold(_, _, _)
Fold(b, lo, hi) ==
    IF lo > hi THEN 1
    ELSE IF lo = hi THEN b[lo] + 2
    ELSE LET mid == (lo + hi) \div 2
         IN (Fold(b, lo, mid) * 33 + Fold(b, mid + 1, hi) * 7 + hi - lo) % 65521

\* a deterministic digest of n bytes
Digest(b, n, salt) ==
    LET seed == Fold(b, 1, Len(b)) IN [i \in 1..n |-> (seed * (i + salt) + i) % 256]

sha256(b) == Digest(b, 32, 7)

ripemd160(b) == Digest(b, 20, 11)

Alphabet ==
    << "1", "2", "3", "4", "5", "6", "7", "8", "9",
       "A", "B", "C", "D", "E", "F", "G", "H", "J", "K", "L", "M", "N", "P", "Q",
       "R", "S", "T", "U", "V", "W", "X", "Y", "Z",
       "a", "b", "c", "d", "e", "f", "g", "h", "i", "j", "k", "m", "n", "o", "p",
       "q", "r", "s", "t", "u", "v", "w", "x", "y", "z" >>

\* a big-endian base-256 number divided by 58: [q |-> quotient, r |-> remainder]
RECURSIVE DivMod58(_)
DivMod58(b) ==
    IF b = <<>> THEN [q |-> <<>>, r |-> 0]
    ELSE LET h == DivMod58(SubSeq(b, 1, Len(b) - 1))
             n == h.r * 256 + b[Len(b)]
         IN [q |-> Append(h.q, n \div 58), r |-> n % 58]

AllZero(b) == \A i \in 1..Len(b) : b[i] = 0

\* the base-58 digits of a big-endian base-256 number, most significant first
RECURSIVE Base58Digits(_)
Base58Digits(b) ==
    IF AllZero(b) THEN <<>>
    ELSE LET d == DivMod58(b) IN Append(Base58Digits(d.q), Alphabet[d.r + 1])

RECURSIVE LeadingZeros(_)
LeadingZeros(b) ==
    IF b = <<>> \/ b[1] # 0 THEN <<>> ELSE <<"1">> \o LeadingZeros(Tail(b))

b58encode(b) == LeadingZeros(b) \o Base58Digits(b)

----------------------------------------------------------------------------
(* class PrivateKey, class PublicKey *)

CoordBytes == 32
ByteBase == 256

RECURSIVE BigEndian(_, _)
BigEndian(n, length) ==
    IF length = 0 THEN <<>>
    ELSE Append(BigEndian(n \div ByteBase, length - 1), n % ByteBase)

RECURSIVE HighPart(_, _)
HighPart(n, length) == IF length = 0 THEN n ELSE HighPart(n \div ByteBase, length - 1)

\* int.to_bytes(length, "big"): OverflowError for a negative or too wide int.
to_bytes(n, length) ==
    IF n < 0 \/ HighPart(n, length) # 0 THEN Raise("OverflowError", <<>>)
    ELSE Ok(BigEndian(n, length))

\* PublicKey.from_point: cls(pt.curve, pt.x, pt.y), through Point.__init__.
from_point(pt) ==
    IF pt.isNone THEN Ok([curve |-> pt.curve, x |-> 0, y |-> 0, isNone |-> TRUE])
    ELSE PointInit(pt.curve, pt.x, pt.y)

\* PrivateKey.get_public_key
get_public_key(secret, generator_point) ==
    LET r == PointRMul(generator_point, secret) IN
    IF r.err # "" THEN r ELSE from_point(r.val)

\* the bytes pkb of PublicKey.encode
SecBytes(self, compressed) ==
    IF compressed
    THEN IF self.isNone THEN Raise("TypeError", <<>>)
         ELSE LET prefix == IF self.y % 2 = 0 THEN <<2>> ELSE <<3>>
                  xb == to_bytes(self.x, CoordBytes)
              IN IF xb.err # "" THEN xb ELSE Ok(prefix \o xb.val)
    ELSE IF self.isNone THEN Raise("AttributeError", <<>>)
         ELSE LET xb == to_bytes(self.x, CoordBytes)
                  yb == to_bytes(self.y, CoordBytes)
              IN IF xb.err # "" THEN xb
                 ELSE IF yb.err # "" THEN yb
                 ELSE Ok(<<4>> \o xb.val \o yb.val)

\* PublicKey.encode
PublicKeyEncode(self, compressed, hash160) ==
    LET pkb == SecBytes(self, compressed) IN
    IF pkb.err # "" THEN pkb
    ELSE IF hash160 THEN Ok(ripemd160(sha256(pkb.val))) ELSE pkb

\* the version table of PublicKey.address
Version(net) == IF net = "main" THEN <<0>> ELSE <<111>>

NoAddress == [err |-> "", val |-> <<>>, byte_address |-> <<>>]

\* PublicKey.address with the checksum taken from a single sha256.
PublicKeyAddress_SingleHashChecksum(self, net, compressed) ==
    IF ~(net \in {"main", "test"})
    THEN [NoAddress EXCEPT !.err = "Network must be 'main' or 'test'"]
    ELSE LET pkb_hash == PublicKeyEncode(self, compressed, TRUE) IN
         IF pkb_hash.err # "" THEN [NoAddress EXCEPT !.err = pkb_hash.err]
         ELSE LET ver_pkb_hash == Version(net) \o pkb_hash.val
                  checksum == SubSeq(sha256(ver_pkb_hash), 1, 4)
                  bytes == ver_pkb_hash \o checksum
              IN [err |-> "", val |-> b58encode(bytes), byte_address |-> bytes]

\* PublicKey.address: val is the returned string, byte_address the bytes
\* handed to b58encode.
PublicKeyAddress(self, net, compressed) ==
    IF ~(net \in {"main", "test"})
    THEN [NoAddress EXCEPT !.err = "Network must be 'main' or 'test'"]
    ELSE LET pkb_hash == PublicKeyEncode(self, compressed, TRUE) IN
         IF pkb_hash.err # "" THEN [NoAddress EXCEPT !.err = pkb_hash.err]
         ELSE LET ver_pkb_hash == Version(net) \o pkb_hash.val
                  checksum == SubSeq(sha256(sha256(ver_pkb_hash)), 1, 4)
                  bytes == ver_pkb_hash \o checksum
              IN [err |-> "", val |-> b58encode(bytes), byte_address |-> bytes]

\* the default of address's parameter compressed
DefaultCompressed == TRUE

----------------------------------------------------------------------------
(* Driver: build a Curve. *)

InitCommon ==
    /\ P = from_ideal_point /\ Q = from_ideal_point /\ R = from_ideal_point
    /\ op = "start" /\ args = <<>> /\ err = ""
    /\ pk = from_ideal_point
    /\ flags = [compressed |-> TRUE, hash160 |-> FALSE, net |-> ""]
    /\ out = <<>> /\ byte_address = <<>> /\ b58 = <<>>
    /\ eu = EuclidStart(0, 0) /\ pc = "idle" /\ inv_m = <<>> /\ built = 0

InitCurve == curve = NoneCurve /\ InitCommon

\* Curve(p, a, b)
CurveNew(p, a, b) ==
    /\ op = "start"
    /\ LET c == CurveInit(p, a, b) IN
        /\ curve' = c.val
        /\ err' = c.err
    /\ op' = "Curve"
    /\ args' = <<p, a, b>>
    /\ UNCHANGED <<P, Q, R, pk, flags, out, byte_address, b58, eu, pc, inv_m, built>>

NextCurve == \E p \in Moduli, a \in Coeffs, b \in Coeffs : CurveNew(p, a, b)

SpecCurve == InitCurve /\ [][NextCurve]_vars

----------------------------------------------------------------------------
(* Driver: on a valid Curve, build up to two Point operands, then call one  *)
(* Point operation. Every operation is a pure function of its operands, so  *)
(* one call per run loses no behaviour. An exception ends the run.          *)

ValidCurves ==
    {CurveInit(p, a, b).val : <<p, a, b>> \in
        {t \in Moduli \X Coeffs \X Coeffs : CurveInit(t[1], t[2], t[3]).err = ""}}

Init ==
    /\ curve \in ValidCurves
    /\ InitCommon

Building == err = "" /\ op \in {"start", "Point", "from_ideal_point"}

\* the operand registers after one more Point has been built
Operand(pt) ==
    /\ P' = IF built = 0 THEN pt ELSE P
    /\ Q' = IF built = 0 THEN Q ELSE pt
    /\ built' = built + 1

\* Point(curve, x, y)
PointNew(x, y) ==
    /\ Building /\ built < 2
    /\ op' = "Point"
    /\ args' = <<x, y>>
    /\ LET r == PointInit(curve, x, y) IN
        /\ err' = r.err
        /\ R' = r.val
        /\ IF r.err = "" THEN Operand(r.val) ELSE UNCHANGED <<P, Q, built>>
    /\ UNCHANGED <<curve, pk, flags, out, byte_address, b58, eu, pc, inv_m>>

\* Point.from_ideal_point()
PointIdeal ==
    /\ Building /\ built < 2
    /\ op' = "from_ideal_point"
    /\ args' = <<>>
    /\ err' = ""
    /\ R' = from_ideal_point
    /\ Operand(from_ideal_point)
    /\ UNCHANGED <<curve, pk, flags, out, byte_address, b58, eu, pc, inv_m>>

\* P + Q
Add ==
    /\ Building /\ built = 2
    /\ op' = "add"
    /\ args' = <<>>
    /\ LET r == PointAdd(P, Q) IN
        /\ err' = r.err
        /\ R' = r.val
    /\ UNCHANGED <<curve, P, Q, pk, flags, out, byte_address, b58, eu, pc, inv_m, built>>

\* k * P (P * k is the same call)
RMul(k) ==
    /\ Building /\ built = 1
    /\ op' = "rmul"
    /\ args' = <<k>>
    /\ LET r == PointRMul(P, k) IN
        /\ err' = r.err
        /\ R' = r.val
    /\ UNCHANGED <<curve, P, Q, pk, flags, out, byte_address, b58, eu, pc, inv_m, built>>

Next ==
    \/ \E x \in Coords, y \in Coords : PointNew(x, y)
    \/ PointIdeal
    \/ Add
    \/ \E k \in Scalars : RMul(k)

Spec == Init /\ [][Next]_vars

----------------------------------------------------------------------------
(* Driver: on a valid Curve with a generator point P, derive a public key,  *)
(* then encode it or take its address.                                      *)

PointsOn(c) ==
    {PointInit(c, x, y).val : <<x, y>> \in
        {t \in Coords \X Coords : PointInit(c, t[1], t[2]).err = ""}}

Nets == {"main", "test", "regtest"}

\* the curves of Bitcoin's shape, y^2 = x^3 + b
KeyCurves == {c \in ValidCurves : c.a = 0}

InitKey ==
    /\ curve \in KeyCurves
    /\ P \in PointsOn(curve)
    /\ Q = from_ideal_point /\ R = P
    /\ op = "Point" /\ args = <<>> /\ err = ""
    /\ pk = from_ideal_point
    /\ flags = [compressed |-> TRUE, hash160 |-> FALSE, net |-> ""]
    /\ out = <<>> /\ byte_address = <<>> /\ b58 = <<>>
    /\ eu = EuclidStart(0, 0) /\ pc = "idle" /\ inv_m = <<>> /\ built = 1

\* PrivateKey(secret).get_public_key(P)
GetPublicKey(secret) ==
    /\ op = "Point" /\ err = ""
    /\ op' = "get_public_key"
    /\ args' = <<secret>>
    /\ LET r == get_public_key(secret, P) IN
        /\ err' = r.err
        /\ pk' = r.val
    /\ UNCHANGED <<curve, P, Q, R, flags, out, byte_address, b58, eu, pc, inv_m, built>>

\* pk.encode(compressed, hash160)
Encode(compressed, hash160) ==
    /\ op = "get_public_key" /\ err = ""
    /\ op' = "encode"
    /\ flags' = [compressed |-> compressed, hash160 |-> hash160, net |-> ""]
    /\ LET r == PublicKeyEncode(pk, compressed, hash160) IN
        /\ err' = r.err
        /\ out' = r.val
    /\ UNCHANGED <<curve, P, Q, R, args, pk, byte_address, b58, eu, pc, inv_m, built>>

\* pk.address(net, compressed)
Address(net, compressed) ==
    /\ op = "get_public_key" /\ err = ""
    /\ op' = "address"
    /\ flags' = [compressed |-> compressed, hash160 |-> TRUE, net |-> net]
    /\ LET r == PublicKeyAddress(pk, net, compressed) IN
        /\ err' = r.err
        /\ byte_address' = r.byte_address
        /\ b58' = r.val
    /\ UNCHANGED <<curve, P, Q, R, args, pk, out, eu, pc, inv_m, built>>

\* pk.address(net): compressed takes its default
AddressDefault(net) ==
    /\ op = "get_public_key" /\ err = ""
    /\ op' = "address_default"
    /\ flags' = [compressed |-> DefaultCompressed, hash160 |-> TRUE, net |-> net]
    /\ LET r == PublicKeyAddress(pk, net, DefaultCompressed) IN
        /\ err' = r.err
        /\ byte_address' = r.byte_address
        /\ b58' = r.val
    /\ UNCHANGED <<curve, P, Q, R, args, pk, out, eu, pc, inv_m, built>>

NextKey ==
    \/ \E secret \in Scalars : GetPublicKey(secret)
    \/ \E c \in BOOLEAN, h \in BOOLEAN : Encode(c, h)
    \/ \E net \in Nets, c \in BOOLEAN : Address(net, c)
    \/ \E net \in Nets : AddressDefault(net)

SpecKey == InitKey /\ [][NextKey]_vars

----------------------------------------------------------------------------
(* inv(n, p) step by step: the call, each iteration of the loop of          *)
(* extended_euclidean_algorithm, the two returns.                           *)

Primes == {p \in 5..MaxP : is_prime(p)}

InitEuclid == curve = NoneCurve /\ InitCommon

\* inv(n, p) is called and the locals of the algorithm are set
InvCall(n, p) ==
    /\ pc = "idle"
    /\ pc' = "loop"
    /\ op' = "inv"
    /\ args' = <<n, p>>
    /\ eu' = EuclidStart(n, p)
    /\ UNCHANGED <<curve, P, Q, R, err, pk, flags, out, byte_address, b58, inv_m, built>>

\* while r != 0: one iteration
EuclidIterate ==
    /\ pc = "loop" /\ eu.r # 0
    /\ eu' = EuclidStep(eu)
    /\ UNCHANGED <<curve, P, Q, R, op, args, err, pk, flags, out, byte_address, b58,
                   pc, inv_m, built>>

\* the loop ends; the algorithm returns its triple and inv returns x % p
InvDone ==
    /\ pc = "loop" /\ eu.r = 0
    /\ pc' = "done"
    /\ inv_m' = <<InvReturn(EuclidReturn(eu), args[2])>>
    /\ UNCHANGED <<curve, P, Q, R, op, args, err, pk, flags, out, byte_address, b58,
                   eu, built>>

NextEuclid ==
    \/ \E n \in (0 - MaxN)..MaxN, p \in Primes : InvCall(n, p)
    \/ EuclidIterate
    \/ InvDone

\* The loop is sequential code: a step that can be taken is taken.
SpecEuclid == InitEuclid /\ [][NextEuclid]_vars /\ WF_vars(NextEuclid)

----------------------------------------------------------------------------
(* Properties. *)

Finite(pt) == ~pt.isNone

\* both coordinates of a finite point lie in [0, p)
InRange(pt) ==
    pt.isNone \/ (pt.x \in 0..(pt.curve.p - 1) /\ pt.y \in 0..(pt.curve.p - 1))

\* y^2 = x^3 + a*x + b (mod p)
OnCurve(c, x, y) == (y * y - (x * x * x + c.a * x + c.b)) % c.p = 0

\* pt added to itself with Point.__add__: pt taken k times
RECURSIVE RepeatAdd(_, _)
RepeatAdd(pt, k) ==
    IF k = 0 THEN Ok(from_ideal_point)
    ELSE LET s == RepeatAdd(pt, k - 1)
         IN IF s.err # "" THEN s ELSE PointAdd(s.val, pt)

\* the number a big-endian byte string denotes
RECURSIVE ValueOf(_)
ValueOf(b) ==
    IF b = <<>> THEN 0 ELSE ValueOf(SubSeq(b, 1, Len(b) - 1)) * 256 + b[Len(b)]

\* C1: for every point P with coordinates in [0, p) and every k >= 0, k * P
\* returns, and returns the point that adding P to itself k times returns
\* (the ideal point for k = 0, P for k = 1, P + P for k = 2).
C1_MulIsRepeatedAdd ==
    (op = "rmul" /\ args[1] >= 0 /\ InRange(P)) =>
        LET s == RepeatAdd(P, args[1]) IN
        /\ err = ""
        /\ s.err = ""
        /\ PointEq(R, s.val)

\* C2: P + Q of two points with coordinates in [0, p) raises nothing and
\* returns the ideal point or a finite point that satisfies the curve equation.
C2_AddStaysOnCurve ==
    (op = "add" /\ InRange(P) /\ InRange(Q)) =>
        /\ err = ""
        /\ R.isNone \/ OnCurve(curve, R.x, R.y)

\* C3: P + Q and Q + P both raise or both return, and when they return the
\* results are equal under Point.__eq__.
C3_AddCommutes ==
    op = "add" =>
        LET rev == PointAdd(Q, P) IN
        /\ (err = "") <=> (rev.err = "")
        /\ err = "" => PointEq(R, rev.val)

\* C4: every Point the program holds, built directly or returned by + or *,
\* has its coordinates in [0, p), and Point(curve, x, y) raises when x or y is
\* negative or >= p.
C4_CoordsInRange ==
    /\ \A pt \in {P, Q, R} : InRange(pt)
    /\ (op = "Point" /\ ~(args[1] \in 0..(curve.p - 1) /\ args[2] \in 0..(curve.p - 1)))
            => err # ""

\* C5: Point(curve, x, y) raises 'Point is not on the curve' exactly when
\* y^2 is not congruent to x^3 + a*x + b modulo p, and otherwise stores the
\* given curve, x and y; Point.from_ideal_point() never raises and returns a
\* point without coordinates, bound to no curve.
C5_PointInitContract ==
    /\ op = "Point" =>
        /\ (err # "") <=> ~OnCurve(curve, args[1], args[2])
        /\ err \in {"", "Point is not on the curve"}
        /\ err = "" =>
             /\ R = [curve |-> curve, x |-> args[1], y |-> args[2], isNone |-> FALSE]
             /\ R \in {P, Q}
    /\ op = "from_ideal_point" =>
        /\ err = ""
        /\ is_ideal_point(R) /\ R.curve = NoneCurve

C5_Witness ==
    /\ op = "Point" /\ err = "Point is not on the curve"
    /\ built = 1 /\ Finite(P) /\ args[1] \in 0..(curve.p - 1)

\* C10: P + (x, (-y) mod p) returns the ideal point for every finite
\* P = (x, y) with coordinates in [0, p); the doubling slope is used only for
\* operands with equal x and equal y, and inv is then not called on a multiple
\* of p.
C10_InverseAndDoubling ==
    (op = "add" /\ Finite(P) /\ Finite(Q) /\ InRange(P) /\ InRange(Q)) =>
        /\ (Q.x = P.x /\ Q.y = (0 - P.y) % curve.p) => (err = "" /\ R.isNone)
        /\ (~(P.x = Q.x /\ P.y # Q.y) /\ P.x = Q.x) =>
             /\ P.y = Q.y
             /\ InvArg(P, Q) % curve.p # 0

\* C6 as stated: Curve(p, a, b) raises exactly when p <= 3, p is not prime or
\* 4a^3 + 27b^2 = 0 (mod p); it reports 'p must be > 3' for p <= 3, 'p is not
\* prime' for a composite p, 'Curve must not be singular' for a zero
\* discriminant, and on success stores p, a, b.
C6_AsStated ==
    op = "Curve" =>
        LET p == args[1]
            a == args[2]
            b == args[3]
            d == 4 * a * a * a + 27 * b * b
        IN /\ (err # "") <=> (p <= 3 \/ ~is_prime(p) \/ d % p = 0)
           /\ p <= 3 => err = "p must be > 3"
           /\ (p > 3 /\ ~is_prime(p)) => err = "p is not prime"
           /\ (p > 3 /\ is_prime(p) /\ d % p = 0) => err = "Curve must not be singular"
           /\ err = "" => curve = [p |-> p, a |-> a, b |-> b]

\* C6 amended: as stated, except that a composite p > 3 is reported as 'p is
\* not prime' only when the discriminant is not 0 modulo p; with a zero
\* discriminant modulo p > 3 the report is 'Curve must not be singular',
\* whether p is prime or not.
C6_SingularBeforePrime ==
    op = "Curve" =>
        LET p == args[1]
            a == args[2]
            b == args[3]
            d == 4 * a * a * a + 27 * b * b
        IN /\ (err # "") <=> (p <= 3 \/ ~is_prime(p) \/ d % p = 0)
           /\ p <= 3 => err = "p must be > 3"
           /\ (p > 3 /\ d % p = 0) => err = "Curve must not be singular"
           /\ (p > 3 /\ d % p # 0 /\ ~is_prime(p)) => err = "p is not prime"
           /\ err = "" => curve = [p |-> p, a |-> a, b |-> b]

C6_Witness ==
    /\ op = "Curve" /\ args[1] > 3 /\ ~is_prime(args[1])
    /\ (4 * args[2] * args[2] * args[2] + 27 * args[3] * args[3]) % args[1] = 0
    /\ args[2] < 0
    /\ err = "Curve must not be singular"

\* C7: encode(compressed=True, hash160=False) of every public key returns 33
\* bytes, 2 (y even) or 3 (y odd) then x in 32 big-endian bytes;
\* encode(compressed=False) returns 65 bytes, 4 then x then y; only a
\* coordinate that does not fit in 32 bytes makes encode raise.
C7_SecEncoding ==
    (op = "encode" /\ ~flags.hash160) =>
        LET fits == Finite(pk) => (pk.x >= 0 /\ (flags.compressed \/ pk.y >= 0))
        IN /\ (err = "") <=> fits
           /\ (err = "" /\ flags.compressed) =>
                /\ Len(out) = 33
                /\ out[1] = IF pk.y % 2 = 0 THEN 2 ELSE 3
                /\ ValueOf(SubSeq(out, 2, 33)) = pk.x
           /\ (err = "" /\ ~flags.compressed) =>
                /\ Len(out) = 65
                /\ out[1] = 4
                /\ ValueOf(SubSeq(out, 2, 33)) = pk.x
                /\ ValueOf(SubSeq(out, 34, 65)) = pk.y

\* C8: address(net, compressed) raises the network error for every net other
\* than "main" and "test", whatever the key (nothing is encoded or hashed);
\* for "main" and "test" the bytes handed to b58encode are the 25 bytes
\* version || payload || checksum, version 0 or 111, payload the 20-byte
\* hash160 of the SEC bytes for the compressed flag, checksum the first 4 bytes
\* of sha256(sha256(version || payload)); compressed defaults to True.
C8_AddressBytes ==
    op \in {"address", "address_default"} =>
        /\ ~(flags.net \in {"main", "test"}) =>
             /\ err = "Network must be 'main' or 'test'"
             /\ byte_address = <<>> /\ b58 = <<>>
        /\ (flags.net \in {"main", "test"} /\ err = "") =>
             LET sec == PublicKeyEncode(pk, flags.compressed, FALSE).val
                 payload == ripemd160(sha256(sec))
                 version == IF flags.net = "main" THEN <<0>> ELSE <<111>>
                 checksum == SubSeq(sha256(sha256(version \o payload)), 1, 4)
             IN /\ Len(payload) = 20
                /\ byte_address = version \o payload \o checksum
                /\ Len(byte_address) = 25
        /\ op = "address_default" => flags.compressed

C8_Witness ==
    /\ op = "address" /\ flags.net = "test" /\ ~flags.compressed /\ err = ""
    /\ Len(byte_address) = 25 /\ byte_address[1] = 111

\* what inv and the algorithm returned is right: Bezout's identity for the
\* triple and, for n not a multiple of p, the unique inverse in [0, p)
InvPostcondition ==
    LET n == args[1]
        p == args[2]
        g == EuclidReturn(eu)
        m == inv_m[1]
    IN /\ n * g[2] + p * g[3] = g[1]
       /\ n % p # 0 =>
            /\ m \in 0..(p - 1)
            /\ (n * m) % p = 1
            /\ \A m2 \in 0..(p - 1) : (n * m2) % p = 1 => m2 = m

\* C9: for every prime p > 3 and every n, negative and >= p included, the
\* loop of extended_euclidean_algorithm(n, p) terminates; the triple it returns
\* satisfies n*x + p*y = gcd, and for n not a multiple of p inv(n, p) is the
\* unique m in [0, p) with n*m = 1 (mod p).
C9_InvCorrect ==
    /\ [](pc = "done" => InvPostcondition)
    /\ (pc = "loop") ~> (pc = "done")

C9_Witness ==
    /\ pc = "done" /\ args[1] < 0 /\ args[1] % args[2] # 0
    /\ eu.old_s < 0 /\ inv_m[1] > 1

====
